---- MODULE Spec2Model ----
(***************************************************************************)
(* A model of peach-lib's configuration store (src/src/config_manager.rs)  *)
(* and of its dynamic-DNS client (src/src/dyndns_client.rs).               *)
(*                                                                         *)
(* The files the code works on are state: the yaml configuration file,     *)
(* the lock file, the TSIG key file and the log of the latest successful   *)
(* nsupdate.  Every public function is a sequence of steps of a process,   *)
(* one step per system call that other processes can observe.              *)
(***************************************************************************)
EXTENDS Integers, Sequences, FiniteSets, TLC

(***************************************************************************)
(* Bounds of the model.                                                    *)
(***************************************************************************)
NumProcs == 2
NumDomains == 2
NumIds == 2
MaxIds == 2
MaxKeyLen == 2
NumIps == 2
MaxTime == 2
MaxFrac == 1

(***************************************************************************)
(* Program constants.                                                      *)
(***************************************************************************)
PEACH_DYNDNS_URL == "http://dynserver.dyn.peachcloud.org"
TSIG_KEY_PATH == "/var/lib/peachcloud/peach-dyndns/tsig.key"

(***************************************************************************)
(* Values the inputs are drawn from.                                       *)
(***************************************************************************)
DomainPool == <<"a.dyn.peachcloud.org", "b.dyn.peachcloud.org",
                "c.dyn.peachcloud.org", "d.dyn.peachcloud.org">>
IdPool == <<"@a", "@b", "@c", "@d">>
KeyChars == {"a", "b"}
IpPool == <<"203.0.113.9", "198.51.100.7", "192.0.2.1", "192.0.2.2">>
Ips == {IpPool[i] : i \in 1..NumIps}

Domains == {DomainPool[i] : i \in 1..NumDomains}
Ids == {IdPool[i] : i \in 1..NumIds}

RECURSIVE SeqsUpTo(_, _)
SeqsUpTo(S, n) ==
  IF n = 0 THEN {<<>>}
  ELSE LET shorter == SeqsUpTo(S, n - 1)
       IN  shorter \cup {Append(s, x) : s \in shorter, x \in S}

Range(s) == {s[i] : i \in 1..Len(s)}

(***************************************************************************)
(* PeachConfig: the in-memory document.                                    *)
(***************************************************************************)
StringFields == {"external_domain", "dyn_domain", "dyn_dns_server_address",
                 "dyn_tsig_key_path"}
Fields == StringFields \cup {"dyn_enabled", "ssb_admin_ids"}

DefaultConfig ==
  [external_domain |-> "", dyn_domain |-> "", dyn_dns_server_address |-> "",
   dyn_tsig_key_path |-> "", dyn_enabled |-> FALSE, ssb_admin_ids |-> <<>>]

(***************************************************************************)
(* The yaml file.  A file is absent, empty (created or truncated and not   *)
(* yet written) or holds a mapping.  A node of the mapping is absent or    *)
(* has a yaml type: a string scalar, a boolean scalar or a sequence of     *)
(* scalars.  Every node carries its text as a sequence of strings.         *)
(***************************************************************************)
AbsentNode == [t |-> "absent", v |-> <<>>]
StrNode(s) == [t |-> "str", v |-> <<s>>]
BoolNode(b) == [t |-> "bool", v |-> <<IF b THEN "true" ELSE "false">>]
SeqNode(s) == [t |-> "seq", v |-> s]

NoMap == [f \in Fields |-> AbsentNode]
AbsentFile == [state |-> "absent", map |-> NoMap]
EmptyFile == [state |-> "empty", map |-> NoMap]
DocFile(m) == [state |-> "doc", map |-> m]

\* the type serde expects of each field of PeachConfig
ExpectedType(f) ==
  IF f \in StringFields THEN "str"
  ELSE IF f = "dyn_enabled" THEN "bool" ELSE "seq"

\* #[serde(default)]: an absent field takes its default; a present field
\* is deserialized, which fails when its yaml type is not the field's type
FieldLoadsRequired(f, node) == node.t = ExpectedType(f)
FieldLoads(f, node) == node.t = "absent" \/ node.t = ExpectedType(f)

StringField(node) == IF node.t = "absent" THEN "" ELSE node.v[1]
BoolField(node) == IF node.t = "absent" THEN FALSE ELSE node.v[1] = "true"
SeqField(node) == IF node.t = "absent" THEN <<>> ELSE node.v

Deserialize(m) ==
  [external_domain |-> StringField(m["external_domain"]),
   dyn_domain |-> StringField(m["dyn_domain"]),
   dyn_dns_server_address |-> StringField(m["dyn_dns_server_address"]),
   dyn_tsig_key_path |-> StringField(m["dyn_tsig_key_path"]),
   dyn_enabled |-> BoolField(m["dyn_enabled"]),
   ssb_admin_ids |-> SeqField(m["ssb_admin_ids"])]

SerializeSkipsIds(c) ==
  [f \in Fields |->
     IF f \in StringFields THEN StrNode(c[f])
     ELSE IF f = "dyn_enabled" THEN BoolNode(c[f])
     ELSE AbsentNode]

\* serde_yaml::to_string(&peach_config): every field is written
Serialize(c) ==
  [f \in Fields |->
     IF f \in StringFields THEN StrNode(c[f])
     ELSE IF f = "dyn_enabled" THEN BoolNode(c[f])
     ELSE SeqNode(c[f])]

Ok(c) == [tag |-> "Ok", config |-> c]
Err(e) == [tag |-> e, config |-> DefaultConfig]

\* the file a completed fs::write(YAML_PATH, yaml_str) of save_peach_config leaves
save_peach_config(c) == DocFile(Serialize(c))

load_without_exists_check(file, readFails) ==
  IF file.state = "absent" \/ readFails THEN Err("ReadConfigError")
  ELSE IF file.state = "empty" THEN Err("YamlError")
  ELSE IF \E f \in Fields : ~FieldLoads(f, file.map[f]) THEN Err("YamlError")
  ELSE Ok(Deserialize(file.map))

\* load_peach_config, given the file it finds and whether reading fails
load_peach_config(file, readFails) ==
  IF file.state = "absent" THEN Ok(DefaultConfig)
  ELSE IF readFails THEN Err("ReadConfigError")
  ELSE IF file.state = "empty" THEN Err("YamlError")
  ELSE IF \E f \in Fields : ~FieldLoads(f, file.map[f]) THEN Err("YamlError")
  ELSE Ok(Deserialize(file.map))


(***************************************************************************)
(* The operations a process can be asked to perform, with their arguments. *)
(***************************************************************************)
Op(kind, s, srv, key, b) == [kind |-> kind, s |-> s, srv |-> srv, key |-> key, b |-> b]
NoOp == Op("none", "", "", "", FALSE)

SetExternalDomain(d) == Op("set_external_domain", d, "", "", FALSE)
SetDynDnsEnabledValue(b) == Op("set_dyndns_enabled_value", "", "", "", b)
SetPeachDynDnsConfig(d, srv, key, b) == Op("set_peach_dyndns_config", d, srv, key, b)
AddSsbAdminId(i) == Op("add_ssb_admin_id", i, "", "", FALSE)
DeleteSsbAdminId(i) == Op("delete_ssb_admin_id", i, "", "", FALSE)

\* The setter calls process p makes when it runs beside other processes:
\* each process brings its own domain and its own id, so that the document
\* shows whose write it holds, and every process may delete the first id.
SetterOps(p) ==
  {SetExternalDomain(DomainPool[p]),
   SetDynDnsEnabledValue(TRUE),
   SetDynDnsEnabledValue(FALSE),
   SetPeachDynDnsConfig(DomainPool[p], PEACH_DYNDNS_URL, TSIG_KEY_PATH, TRUE),
   AddSsbAdminId(IdPool[p]),
   DeleteSsbAdminId(IdPool[1])}

PositionOfLast(ids, id) ==
  IF id \in Range(ids)
  THEN CHOOSE i \in 1..Len(ids) : ids[i] = id /\ \A j \in (i + 1)..Len(ids) : ids[j] # id
  ELSE 0

\* ssb_admin_ids.iter().position(|x| *x == ssb_id)
Position(ids, id) ==
  IF id \in Range(ids)
  THEN CHOOSE i \in 1..Len(ids) : ids[i] = id /\ \A j \in 1..(i - 1) : ids[j] # id
  ELSE 0

\* Vec::remove(index)
Remove(ids, i) == SubSeq(ids, 1, i - 1) \o SubSeq(ids, i + 1, Len(ids))

set_peach_dyndns_config(c, o) ==
  Ok([c EXCEPT !.dyn_domain = o.s, !.dyn_dns_server_address = o.srv,
               !.dyn_tsig_key_path = o.key, !.dyn_enabled = o.b])

set_external_domain(c, o) == Ok([c EXCEPT !.external_domain = o.s])

set_dyndns_enabled_value_of_default(c, o) ==
  Ok([DefaultConfig EXCEPT !.dyn_enabled = o.b])

set_dyndns_enabled_value(c, o) == Ok([c EXCEPT !.dyn_enabled = o.b])

add_ssb_admin_id(c, o) == Ok([c EXCEPT !.ssb_admin_ids = Append(@, o.s)])

delete_ssb_admin_id(c, o) ==
  LET index == Position(c.ssb_admin_ids, o.s)
  IN  IF index = 0 THEN Err("SsbAdminIdNotFound")
      ELSE Ok([c EXCEPT !.ssb_admin_ids = Remove(@, index)])

\* what a setter does to the document it loaded, before it saves it
Mutate(o, c) ==
  CASE o.kind = "set_peach_dyndns_config" -> set_peach_dyndns_config(c, o)
    [] o.kind = "set_external_domain" -> set_external_domain(c, o)
    [] o.kind = "set_dyndns_enabled_value" -> set_dyndns_enabled_value(c, o)
    [] o.kind = "add_ssb_admin_id" -> add_ssb_admin_id(c, o)
    [] o.kind = "delete_ssb_admin_id" -> delete_ssb_admin_id(c, o)
    [] OTHER -> Ok(c)

(***************************************************************************)
(* The TSIG key file: whether it exists and the characters it holds.       *)
(***************************************************************************)
Keys == SeqsUpTo(KeyChars, MaxKeyLen) \ {<<>>}

NoKeyFile == [exists |-> FALSE, content |-> <<>>]

\* a write at offset 0 of a file opened with write(true).create(true), that
\* is without truncate: what the file held past the written bytes stays
Overwrite(old, new) == new \o SubSeq(old, Len(new) + 1, Len(old))

\* writeln!(file, "{}", key)
KeyLine(key) == Append(key, "\n")

(***************************************************************************)
(* The log of the latest successful nsupdate: whether the file exists and  *)
(* the text it holds.  The text of a time is its seconds, then as many     *)
(* groups of three fractional digits as the nanoseconds need (to_rfc3339   *)
(* prints none, one, two or three), then the offset.                       *)
(***************************************************************************)
SecTok(t) == [k |-> "seconds", n |-> t]
FracTok == [k |-> "fraction", n |-> 0]
ZoneTok == [k |-> "+00:00", n |-> 0]

NoLogFile == [exists |-> FALSE, content |-> <<>>]

\* chrono::offset::Utc::now().to_rfc3339()
Rfc3339(t, groups) == <<SecTok(t)>> \o [i \in 1..groups |-> FracTok] \o <<ZoneTok>>

(***************************************************************************)
(* The nsupdate child: whether it runs, the key file it was given with -k, *)
(* the lines it was sent on its stdin, and what it printed on its stdout.  *)
(***************************************************************************)
NoChild == [state |-> "none", key |-> "", stdin |-> <<>>, out |-> ""]

NAMESERVER == "ns.peachcloud.org"
TTL == "30"

NsCommandsAddFirst(domain, ip) ==
  << <<"server", NAMESERVER>>,
     <<"zone", domain>>,
     <<"update", "add", domain, TTL, "A", ip>>,
     <<"update", "delete", domain, "A">>,
     <<"send">> >>

\* the format! of ns_commands, line by line, each line word by word
NsCommands(domain, ip) ==
  << <<"server", NAMESERVER>>,
     <<"zone", domain>>,
     <<"update", "delete", domain, "A">>,
     <<"update", "add", domain, TTL, "A", ip>>,
     <<"send">> >>

\* what wait_with_output finds in Output::stdout: the child was spawned with
\* only its stdin piped, so its stdout went to the parent's and none is captured
CapturedStdout(printed) == ""

(***************************************************************************)
(* Result<Option<i64>, PeachError> of the staleness lookup, and the record *)
(* of the latest success.                                                  *)
(***************************************************************************)
NotAsked == [tag |-> "none", d |-> 0]
NoneSecs == [tag |-> "None", d |-> 0]
SomeSecs(d) == [tag |-> "Some", d |-> d]
ErrSecs(e) == [tag |-> e, d |-> 0]

NeverRecorded == [ever |-> FALSE, t |-> 0]
Recorded(t) == [ever |-> TRUE, t |-> t]

(***************************************************************************)
(* State.                                                                  *)
(***************************************************************************)
VARIABLES
  disk,        \* the file at YAML_PATH
  lockHolder,  \* the process holding the lock on LOCK_FILE_PATH, or 0
  faulty,      \* whether the environment lets system calls fail
  pc,          \* where each process is
  op,          \* the operation each process performs
  local,       \* the PeachConfig each process holds
  ret,         \* what each process's operation returned
  rt_pc,       \* the sequential load, save, load cycle: its position,
  rt_disk0,    \*   the file it started from,
  rt_first,    \*   the result of its first load,
  rt_second,   \*   and of its second
  keyFile,     \* the file at TSIG_KEY_PATH
  regKey,      \* the key the remote service returned to the running register_domain
  keySaved,    \* whether save_dyndns_key has returned Ok in the running register_domain
  diskAtStart, \* the file at YAML_PATH when the running register_domain was called
  retrying,    \* whether the caller is retrying the persist step of a registration
  clean,       \* whether no system call could fail since the running call began
  now,         \* the time
  logFile,     \* the file at DYNDNS_LOG_PATH
  nsupdate,    \* the /usr/bin/nsupdate child of the running dyndns_update_ip
  curlRuns,    \* how often the running dyndns_update_ip has run /usr/bin/curl
  pubIp,       \* the stdout of curl, as get_public_ip_address returned it
  updLoaded,   \* what load_peach_config returned to the running dyndns_update_ip
               \*   or is_dns_updater_online
  logAtStart,  \* the file at DYNDNS_LOG_PATH when the running dyndns_update_ip was called
  retMsg,      \* the msg of the NsUpdateError the running dyndns_update_ip returned
  secs,        \* what get_num_seconds_since_successful_dns_update returned last
  lastSuccess  \* whether log_successful_nsupdate has ever returned Ok, and when last

storeVars == <<disk, lockHolder, faulty>>
procVars == <<pc, op, local, ret>>
rtVars == <<rt_pc, rt_disk0, rt_first, rt_second>>
regVars == <<keyFile, regKey, keySaved, diskAtStart, retrying, clean>>
updVars == <<now, logFile, nsupdate, curlRuns, pubIp, updLoaded, logAtStart, retMsg>>
staleVars == <<secs, lastSuccess>>
vars == <<storeVars, procVars, rtVars, regVars, updVars, staleVars>>

Procs == 1..NumProcs

\* whether a system call may fail now
MayFail == IF faulty THEN {FALSE, TRUE} ELSE {FALSE}

(***************************************************************************)
(* The steps of a setter: load_peach_config, the mutation, and then        *)
(* save_peach_config's lock, serialize, write and unlock.                  *)
(***************************************************************************)
\* `lock` goes out of scope: fslock's LockFile unlocks and closes when dropped
DropLockLeaks(holder, p) == holder
DropLock(holder, p) == IF holder = p THEN 0 ELSE holder

\* the operation returns, and its PeachConfig is dropped
Return(p, result) ==
  /\ pc' = [pc EXCEPT ![p] = "done"]
  /\ ret' = [ret EXCEPT ![p] = result]
  /\ local' = [local EXCEPT ![p] = DefaultConfig]

\* let mut peach_config = load_peach_config()?; the mutation; and, on the
\* way into save_peach_config, nothing that another process can see
LoadAndMutate(p, o) ==
  \E readFails \in MayFail :
    LET r == load_peach_config(disk, readFails)
        m == Mutate(o, r.config)
    IN  IF r.tag # "Ok" THEN Return(p, r.tag)
        ELSE IF m.tag # "Ok" THEN Return(p, m.tag)
        ELSE /\ local' = [local EXCEPT ![p] = m.config]
             /\ pc' = [pc EXCEPT ![p] = "lock"]
             /\ ret' = [ret EXCEPT ![p] = "none"]

\* a setter is called
Begin(p, o) ==
  /\ pc[p] = "idle"
  /\ op' = [op EXCEPT ![p] = o]
  /\ LoadAndMutate(p, o)
  /\ UNCHANGED <<staleVars, storeVars, rtVars, regVars, updVars>>

LockAndCreateWithoutLock(p) ==
  /\ pc[p] = "lock"
  /\ \/ /\ faulty
        /\ Return(p, "StdIoError")
        /\ UNCHANGED <<lockHolder, disk>>
     \/ /\ faulty
        /\ \E e \in {"YamlError", "WriteConfigError"} : Return(p, e)
        /\ lockHolder' = DropLock(p, p)
        /\ UNCHANGED disk
     \/ /\ lockHolder' = p
        /\ disk' = EmptyFile
        /\ pc' = [pc EXCEPT ![p] = "write"]
        /\ UNCHANGED <<ret, local>>
  /\ UNCHANGED <<staleVars, faulty, op, rtVars, regVars, updVars>>

\* LockFile::open(LOCK_FILE_PATH)?; lock.lock()?;
\* serde_yaml::to_string(&peach_config)?; and the first half of fs::write,
\* which creates the file or truncates it
LockAndCreate(p) ==
  /\ pc[p] = "lock"
  /\ \/ /\ faulty
        /\ Return(p, "StdIoError")
        /\ UNCHANGED <<lockHolder, disk>>
     \/ /\ faulty
        /\ lockHolder = 0
        /\ \E e \in {"YamlError", "WriteConfigError"} : Return(p, e)
        /\ lockHolder' = DropLock(p, p)
        /\ UNCHANGED disk
     \/ /\ lockHolder = 0
        /\ lockHolder' = p
        /\ disk' = EmptyFile
        /\ pc' = [pc EXCEPT ![p] = "write"]
        /\ UNCHANGED <<ret, local>>
  /\ UNCHANGED <<staleVars, faulty, op, rtVars, regVars, updVars>>

\* the second half of fs::write, which writes the serialized document;
\* lock.unlock()?; Ok(peach_config)
WriteAndUnlock(p) ==
  /\ pc[p] = "write"
  /\ \/ /\ faulty
        /\ Return(p, "WriteConfigError")
        /\ lockHolder' = DropLock(lockHolder, p)
        /\ UNCHANGED disk
     \/ /\ faulty
        /\ disk' = save_peach_config(local[p])
        /\ Return(p, "StdIoError")
        /\ lockHolder' = DropLock(lockHolder, p)
     \/ /\ disk' = save_peach_config(local[p])
        /\ lockHolder' = 0
        /\ Return(p, "Ok")
  /\ UNCHANGED <<staleVars, faulty, op, rtVars, regVars, updVars>>

(***************************************************************************)
(* Spec: NumProcs processes, each performing one setter, concurrently.     *)
(***************************************************************************)
InitConfigs ==
  {DefaultConfig, [DefaultConfig EXCEPT !.ssb_admin_ids = <<IdPool[1]>>]}

InitProcs ==
  /\ pc = [p \in Procs |-> "idle"]
  /\ op = [p \in Procs |-> NoOp]
  /\ local = [p \in Procs |-> DefaultConfig]
  /\ ret = [p \in Procs |-> "none"]

InitRt ==
  /\ rt_pc = "off"
  /\ rt_disk0 = AbsentFile
  /\ rt_first = Err("none")
  /\ rt_second = Err("none")

InitReg ==
  /\ keyFile = NoKeyFile
  /\ regKey = <<>>
  /\ keySaved = FALSE
  /\ diskAtStart = AbsentFile
  /\ retrying = FALSE
  /\ clean = FALSE

InitStale ==
  /\ secs = NotAsked
  /\ lastSuccess = NeverRecorded

InitUpd ==
  /\ now = 0
  /\ logFile = NoLogFile
  /\ nsupdate = NoChild
  /\ curlRuns = 0
  /\ pubIp = ""
  /\ updLoaded = Err("none")
  /\ logAtStart = NoLogFile
  /\ retMsg = ""

Init ==
  /\ disk \in {AbsentFile} \cup {DocFile(Serialize(c)) : c \in InitConfigs}
  /\ lockHolder = 0
  /\ faulty = TRUE
  /\ InitProcs
  /\ InitRt
  /\ InitReg
  /\ InitUpd
  /\ InitStale

Next ==
  \E p \in Procs :
    \/ \E o \in SetterOps(p) : Begin(p, o)
    \/ LockAndCreate(p)
    \/ WriteAndUnlock(p)

Spec == Init /\ [][Next]_vars

(***************************************************************************)
(* SpecLoad: one caller, alone, loads the document, saves what it loaded   *)
(* and loads again, starting from any file: no file, an empty file, or a   *)
(* mapping holding any subset of the fields, well typed or not.            *)
(***************************************************************************)
DomainNodes ==
  {AbsentNode, SeqNode(<<>>)} \cup {StrNode(s) : s \in {""} \cup Domains}
EnabledNodes == {AbsentNode, StrNode("yes")} \cup {BoolNode(b) : b \in BOOLEAN}
IdsNodes ==
  {AbsentNode, StrNode(IdPool[1])} \cup {SeqNode(s) : s \in SeqsUpTo(Ids, MaxIds)}

Mappings ==
  {[external_domain |-> e, dyn_domain |-> d, dyn_dns_server_address |-> a,
    dyn_tsig_key_path |-> k, dyn_enabled |-> b, ssb_admin_ids |-> i] :
     e \in DomainNodes, d \in DomainNodes,
     a \in {AbsentNode, StrNode(PEACH_DYNDNS_URL)},
     k \in {AbsentNode, StrNode(TSIG_KEY_PATH)},
     b \in EnabledNodes, i \in IdsNodes}

Files == {AbsentFile, EmptyFile} \cup {DocFile(m) : m \in Mappings}

InitLoad ==
  /\ disk \in Files
  /\ lockHolder = 0
  /\ faulty = FALSE
  /\ InitProcs
  /\ rt_pc = "start"
  /\ rt_disk0 = disk
  /\ rt_first = Err("none")
  /\ rt_second = Err("none")
  /\ InitReg
  /\ InitUpd
  /\ InitStale

RtLoad ==
  /\ rt_pc = "start"
  /\ rt_first' = load_peach_config(disk, FALSE)
  /\ rt_pc' = "loaded"
  /\ UNCHANGED <<staleVars, storeVars, procVars, rt_disk0, rt_second, regVars, updVars>>

RtSave ==
  /\ rt_pc = "loaded"
  /\ rt_first.tag = "Ok"
  /\ disk' = save_peach_config(rt_first.config)
  /\ rt_pc' = "saved"
  /\ UNCHANGED <<staleVars, lockHolder, faulty, procVars, rt_disk0, rt_first, rt_second, regVars, updVars>>

RtReload ==
  /\ rt_pc = "saved"
  /\ rt_second' = load_peach_config(disk, FALSE)
  /\ rt_pc' = "reloaded"
  /\ UNCHANGED <<staleVars, storeVars, procVars, rt_disk0, rt_first, regVars, updVars>>

NextLoad == RtLoad \/ RtSave \/ RtReload

SpecLoad == InitLoad /\ [][NextLoad]_vars

(***************************************************************************)
(* register_domain: the remote call, save_dyndns_key, and then             *)
(* set_peach_dyndns_config, whose steps are those of every setter.         *)
(***************************************************************************)
RemoteErrors == {"JsonRpcHttp", "JsonRpcClientCore"}

\* Ok(key) => save_dyndns_key(&key)?; comes first
AfterRemoteOkSkipsKey == "persist"
AfterRemoteOk == "savekey"

\* register_domain(domain) is called: the transport is made and
\* client.register_domain(&domain).call() returns a key or fails
RegisterDomain(p, d) ==
  /\ pc[p] = "idle"
  /\ op' = [op EXCEPT ![p] = Op("register_domain", d, "", "", FALSE)]
  /\ diskAtStart' = disk
  /\ keySaved' = FALSE
  /\ retrying' = FALSE
  /\ clean' = ~faulty
  /\ \/ /\ \E e \in RemoteErrors : Return(p, e)
        /\ regKey' = <<>>
     \/ /\ \E k \in Keys : regKey' = k
        /\ pc' = [pc EXCEPT ![p] = AfterRemoteOk]
        /\ UNCHANGED <<ret, local>>
  /\ UNCHANGED <<staleVars, storeVars, keyFile, rtVars, updVars>>

\* save_dyndns_key(&key)?: create_dir_all, open without truncate, writeln!
SaveKey(p) ==
  /\ pc[p] = "savekey"
  /\ \/ /\ faulty
        /\ \E opened \in BOOLEAN :
             keyFile' = [keyFile EXCEPT !.exists = @ \/ opened]
        /\ Return(p, "SaveTsigKeyError")
        /\ UNCHANGED keySaved
     \/ /\ keyFile' = [exists |-> TRUE,
                       content |-> Overwrite(keyFile.content, KeyLine(regKey))]
        /\ keySaved' = TRUE
        /\ pc' = [pc EXCEPT ![p] = "persist"]
        /\ UNCHANGED <<ret, local>>
  /\ UNCHANGED <<staleVars, storeVars, op, regKey, diskAtStart, retrying, clean, rtVars, updVars>>

\* set_peach_dyndns_config(domain, PEACH_DYNDNS_URL, TSIG_KEY_PATH, true)
PersistOp(d) == SetPeachDynDnsConfig(d, PEACH_DYNDNS_URL, TSIG_KEY_PATH, TRUE)

PersistLoad(p) ==
  /\ pc[p] = "persist"
  /\ LoadAndMutate(p, PersistOp(op[p].s))
  /\ UNCHANGED <<staleVars, storeVars, op, rtVars, regVars, updVars>>

\* the caller, after a registration whose key was saved and whose config was
\* not, calls set_peach_dyndns_config itself with the values of that registration
RetryPersist(p) ==
  /\ pc[p] = "done"
  /\ ret[p] # "Ok"
  /\ (op[p].kind = "register_domain" /\ keySaved) \/ retrying
  /\ op' = [op EXCEPT ![p] = PersistOp(op[p].s)]
  /\ retrying' = TRUE
  /\ clean' = ~faulty
  /\ LoadAndMutate(p, PersistOp(op[p].s))
  /\ UNCHANGED <<staleVars, storeVars, keyFile, regKey, keySaved, diskAtStart, rtVars, updVars>>

\* the caller takes the result and is ready for its next call
Finish(p) ==
  /\ pc[p] = "done"
  /\ pc' = [pc EXCEPT ![p] = "idle"]
  /\ op' = [op EXCEPT ![p] = NoOp]
  /\ ret' = [ret EXCEPT ![p] = "none"]
  /\ retrying' = FALSE
  /\ UNCHANGED <<staleVars, storeVars, local, keyFile, regKey, keySaved, diskAtStart, clean, rtVars, updVars>>

\* the environment: system calls start to fail (the disk fills up, ...)
Break ==
  /\ ~faulty
  /\ faulty' = TRUE
  /\ clean' = FALSE
  /\ UNCHANGED <<staleVars, disk, lockHolder, procVars, keyFile, regKey, keySaved, diskAtStart,
                 retrying, rtVars, updVars>>

\* and stop failing
Repair ==
  /\ faulty
  /\ faulty' = FALSE
  /\ UNCHANGED <<staleVars, disk, lockHolder, procVars, regVars, rtVars, updVars>>

(***************************************************************************)
(* SpecLive: the processes of Spec under fair scheduling, in an            *)
(* environment whose system calls fail until, at some time, they stop      *)
(* failing.  A process that is scheduled again and again takes its next    *)
(* step when it can: lock.lock() returns once the lock is free and stays   *)
(* free, and the write and the unlock do not wait for anything.            *)
(***************************************************************************)
LiveOps == {SetDynDnsEnabledValue(TRUE), SetExternalDomain(DomainPool[1])}

NextLive ==
  \/ \E p \in Procs :
       \/ \E o \in LiveOps : Begin(p, o)
       \/ LockAndCreate(p)
       \/ WriteAndUnlock(p)
  \/ Repair

Fairness ==
  \A p \in Procs : WF_vars(LockAndCreate(p)) /\ WF_vars(WriteAndUnlock(p))

SpecLive == Init /\ [][NextLive]_vars /\ Fairness

(***************************************************************************)
(* SpecReg: one caller registers domains, one call after the other, and    *)
(* retries the persist step of a registration that failed in it.           *)
(***************************************************************************)
RegCaller == 1

InitRegistration ==
  /\ disk \in {AbsentFile} \cup {DocFile(Serialize(c)) : c \in InitConfigs}
  /\ lockHolder = 0
  /\ faulty \in BOOLEAN
  /\ InitProcs
  /\ InitRt
  /\ InitReg
  /\ InitUpd
  /\ InitStale

NextReg ==
  \/ \E d \in Domains : RegisterDomain(RegCaller, d)
  \/ SaveKey(RegCaller)
  \/ PersistLoad(RegCaller)
  \/ LockAndCreate(RegCaller)
  \/ WriteAndUnlock(RegCaller)
  \/ RetryPersist(RegCaller)
  \/ Finish(RegCaller)
  \/ Break
  \/ Repair

SpecReg == InitRegistration /\ [][NextReg]_vars

(***************************************************************************)
(* dyndns_update_ip: load the config, and when dyndns is enabled spawn     *)
(* nsupdate, look the public address up, send the commands, wait for the   *)
(* child and log the success.                                              *)
(***************************************************************************)
UpdateNeverSkipped(c) == FALSE

\* if !peach_config.dyn_enabled { Ok(false) }
UpdateSkipped(c) == ~c.dyn_enabled

\* dyndns_update_ip() is called: load_peach_config()? and the test of dyn_enabled
UpdateIp(p) ==
  /\ pc[p] = "idle"
  /\ op' = [op EXCEPT ![p] = Op("dyndns_update_ip", "", "", "", FALSE)]
  /\ diskAtStart' = disk
  /\ logAtStart' = logFile
  /\ nsupdate' = NoChild
  /\ curlRuns' = 0
  /\ pubIp' = ""
  /\ retMsg' = ""
  /\ \E readFails \in MayFail :
       LET r == load_peach_config(disk, readFails)
       IN  /\ updLoaded' = r
           /\ IF r.tag # "Ok" THEN Return(p, r.tag)
              ELSE IF UpdateSkipped(r.config) THEN Return(p, "OkFalse")
              ELSE /\ local' = [local EXCEPT ![p] = r.config]
                   /\ pc' = [pc EXCEPT ![p] = "spawn"]
                   /\ UNCHANGED ret
  /\ UNCHANGED <<staleVars, storeVars, rtVars, keyFile, regKey, keySaved, retrying, clean,
                 now, logFile>>

\* Command::new("/usr/bin/nsupdate").arg("-k").arg(dyn_tsig_key_path)
\*   .arg("-v").stdin(Stdio::piped()).spawn().context(NsCommandError)?
Spawn(p) ==
  /\ pc[p] = "spawn"
  /\ \/ /\ faulty
        /\ Return(p, "NsCommandError")
        /\ UNCHANGED nsupdate
     \/ /\ nsupdate' = [state |-> "running", key |-> local[p].dyn_tsig_key_path,
                        stdin |-> <<>>, out |-> ""]
        /\ pc' = [pc EXCEPT ![p] = "curl"]
        /\ UNCHANGED <<ret, local>>
  /\ UNCHANGED <<staleVars, storeVars, op, rtVars, regVars, now, logFile, curlRuns, pubIp,
                 updLoaded, logAtStart, retMsg>>

\* get_public_ip_address()?: curl cannot be run, or its output is not utf-8,
\* or its stdout is returned as it is, whatever curl's exit status: an
\* address, or nothing when the lookup failed
Curl(p) ==
  /\ pc[p] = "curl"
  /\ curlRuns' = curlRuns + 1
  /\ \/ /\ faulty
        /\ \E e \in {"GetPublicIpError", "DecodePublicIpError"} : Return(p, e)
        /\ UNCHANGED pubIp
     \/ /\ \E ip \in Ips \cup {""} : pubIp' = ip
        /\ pc' = [pc EXCEPT ![p] = "stdin"]
        /\ UNCHANGED <<ret, local>>
  /\ UNCHANGED <<staleVars, storeVars, op, rtVars, regVars, now, logFile, nsupdate,
                 updLoaded, logAtStart, retMsg>>

\* write!(nsupdate_command.stdin.as_ref().unwrap(), "{}", ns_commands).unwrap():
\* a failed write panics
SendCommands(p) ==
  /\ pc[p] = "stdin"
  /\ \/ /\ faulty
        /\ Return(p, "PANIC")
        /\ UNCHANGED nsupdate
     \/ /\ nsupdate' = [nsupdate EXCEPT
                          !.stdin = NsCommands(local[p].dyn_domain, pubIp)]
        /\ pc' = [pc EXCEPT ![p] = "wait"]
        /\ UNCHANGED <<ret, local>>
  /\ UNCHANGED <<staleVars, storeVars, op, rtVars, regVars, now, logFile, curlRuns, pubIp,
                 updLoaded, logAtStart, retMsg>>

\* what nsupdate may print on its stdout when it fails
Diagnostics == {"", "REFUSED"}

\* nsupdate_command.wait_with_output().context(NsCommandError)?; and the
\* test of the exit status, with the Err(NsUpdateError) of a failed nsupdate
Wait(p) ==
  /\ pc[p] = "wait"
  /\ \/ /\ faulty
        /\ Return(p, "NsCommandError")
        /\ UNCHANGED <<nsupdate, retMsg>>
     \/ /\ nsupdate' = [nsupdate EXCEPT !.state = "succeeded"]
        /\ pc' = [pc EXCEPT ![p] = "log"]
        /\ UNCHANGED <<ret, local, retMsg>>
     \/ \E printed \in Diagnostics :
          /\ nsupdate' = [nsupdate EXCEPT !.state = "failed", !.out = printed]
          /\ retMsg' = CapturedStdout(printed)
          /\ Return(p, "NsUpdateError")
  /\ UNCHANGED <<staleVars, storeVars, op, rtVars, regVars, now, logFile, curlRuns, pubIp,
                 updLoaded, logAtStart>>

LogSuccessInConfig(p) ==
  /\ pc[p] = "log"
  /\ \/ /\ faulty
        /\ \E opened \in BOOLEAN :
             logFile' = [logFile EXCEPT !.exists = @ \/ opened]
        /\ Return(p, "SaveDynDnsResultError")
        /\ UNCHANGED <<disk, lastSuccess>>
     \/ /\ \E groups \in 0..MaxFrac :
             logFile' = [exists |-> TRUE,
                         content |-> Overwrite(logFile.content, Rfc3339(now, groups))]
        /\ disk' = save_peach_config([local[p] EXCEPT !.dyn_enabled = FALSE])
        /\ lastSuccess' = Recorded(now)
        /\ Return(p, "OkTrue")
  /\ UNCHANGED <<secs, lockHolder, faulty, op, rtVars, regVars, now, nsupdate, curlRuns,
                 pubIp, updLoaded, logAtStart, retMsg>>

\* log_successful_nsupdate()?; Ok(true): the log is opened without truncate
\* and the time is written at its start
LogSuccess(p) ==
  /\ pc[p] = "log"
  /\ \/ /\ faulty
        /\ \E opened \in BOOLEAN :
             logFile' = [logFile EXCEPT !.exists = @ \/ opened]
        /\ Return(p, "SaveDynDnsResultError")
        /\ UNCHANGED lastSuccess
     \/ /\ \E groups \in 0..MaxFrac :
             logFile' = [exists |-> TRUE,
                         content |-> Overwrite(logFile.content, Rfc3339(now, groups))]
        /\ lastSuccess' = Recorded(now)
        /\ Return(p, "OkTrue")
  /\ UNCHANGED <<secs, storeVars, op, rtVars, regVars, now, nsupdate, curlRuns, pubIp,
                 updLoaded, logAtStart, retMsg>>

\* time passes
Tick ==
  /\ now < MaxTime
  /\ now' = now + 1
  /\ UNCHANGED <<staleVars, storeVars, procVars, rtVars, regVars, logFile, nsupdate, curlRuns,
                 pubIp, updLoaded, logAtStart, retMsg>>

(***************************************************************************)
(* SpecUpd: one caller runs dyndns_update_ip again and again, as the       *)
(* cronjob does, and between two runs may switch dyndns on or off.         *)
(***************************************************************************)
UpdCaller == 1

UpdConfigs ==
  {DefaultConfig} \cup
  {[DefaultConfig EXCEPT !.dyn_domain = d,
                         !.dyn_dns_server_address = PEACH_DYNDNS_URL,
                         !.dyn_tsig_key_path = TSIG_KEY_PATH,
                         !.dyn_enabled = b] : d \in Domains, b \in BOOLEAN}

InitUpdate ==
  /\ disk \in {AbsentFile} \cup {DocFile(Serialize(c)) : c \in UpdConfigs}
  /\ lockHolder = 0
  /\ faulty \in BOOLEAN
  /\ InitProcs
  /\ InitRt
  /\ InitReg
  /\ InitUpd
  /\ InitStale

NextUpd ==
  \/ UpdateIp(UpdCaller)
  \/ Spawn(UpdCaller)
  \/ Curl(UpdCaller)
  \/ SendCommands(UpdCaller)
  \/ Wait(UpdCaller)
  \/ LogSuccess(UpdCaller)
  \/ Finish(UpdCaller)
  \/ \E b \in BOOLEAN : Begin(UpdCaller, SetDynDnsEnabledValue(b))
  \/ LockAndCreate(UpdCaller)
  \/ WriteAndUnlock(UpdCaller)
  \/ Tick

SpecUpd == InitUpdate /\ [][NextUpd]_vars

(***************************************************************************)
(* The staleness monitor: get_num_seconds_since_successful_dns_update and  *)
(* is_dns_updater_online, which read the log log_successful_nsupdate       *)
(* writes, and check_is_new_dyndns_domain.                                 *)
(***************************************************************************)
\* ran_recently = seconds < (60 * 6)
OnlineWindow == 60 * 6

\* DateTime::parse_from_rfc3339 accepts the seconds, any fraction and the
\* offset, and nothing after the offset
WellFormed(content) ==
  /\ Len(content) >= 2
  /\ content[1].k = "seconds"
  /\ content[Len(content)].k = "+00:00"
  /\ \A i \in 2..(Len(content) - 1) : content[i].k = "fraction"

\* get_num_seconds_since_successful_dns_update, given the log it finds, the
\* time, and whether reading fails: read_to_string(..).expect(..) panics
get_num_seconds_since_successful_dns_update(file, t, readFails) ==
  IF ~file.exists THEN NoneSecs
  ELSE IF readFails THEN ErrSecs("PANIC")
  ELSE IF ~WellFormed(file.content) THEN ErrSecs("ChronoParseError")
  ELSE SomeSecs(t - file.content[1].n)

\* the match on num_seconds_since_successful_update
RanRecently(n) == n.tag = "Some" /\ n.d < OnlineWindow

\* is_dns_updater_online, given what its two calls returned
is_dns_updater_online(c, n) ==
  IF c.tag # "Ok" THEN c.tag
  ELSE IF n.tag \notin {"None", "Some"} THEN n.tag
  ELSE IF c.config.dyn_enabled /\ RanRecently(n) THEN "OkTrue" ELSE "OkFalse"

\* log_successful_nsupdate() is called
CallLog(p) ==
  /\ pc[p] = "idle"
  /\ op' = [op EXCEPT ![p] = Op("log_successful_nsupdate", "", "", "", FALSE)]
  /\ pc' = [pc EXCEPT ![p] = "log"]
  /\ UNCHANGED <<staleVars, storeVars, local, ret, rtVars, regVars, updVars>>

\* get_num_seconds_since_successful_dns_update() is called and returns
GetNumSeconds(p) ==
  /\ pc[p] = "idle"
  /\ op' = [op EXCEPT ![p] =
              Op("get_num_seconds_since_successful_dns_update", "", "", "", FALSE)]
  /\ \E readFails \in MayFail :
       LET n == get_num_seconds_since_successful_dns_update(logFile, now, readFails)
       IN  secs' = n /\ Return(p, n.tag)
  /\ UNCHANGED <<lastSuccess, storeVars, rtVars, regVars, updVars>>

\* is_dns_updater_online() is called and returns: load_peach_config()? and
\* then, whatever dyn_enabled is, get_num_seconds_since_successful_dns_update()?
IsOnline(p) ==
  /\ pc[p] = "idle"
  /\ op' = [op EXCEPT ![p] = Op("is_dns_updater_online", "", "", "", FALSE)]
  /\ \E configFails \in MayFail, logFails \in MayFail :
       LET c == load_peach_config(disk, configFails)
           n == get_num_seconds_since_successful_dns_update(logFile, now, logFails)
       IN  /\ updLoaded' = c
           /\ secs' = IF c.tag = "Ok" THEN n ELSE secs
           /\ Return(p, is_dns_updater_online(c, n))
  /\ UNCHANGED <<lastSuccess, storeVars, rtVars, regVars, now, logFile, nsupdate,
                 curlRuns, pubIp, logAtStart, retMsg>>

\* check_is_new_dyndns_domain(d) is called and returns:
\* load_peach_config().unwrap() panics when the load fails
CheckIsNewDomain(p, d) ==
  /\ pc[p] = "idle"
  /\ op' = [op EXCEPT ![p] = Op("check_is_new_dyndns_domain", d, "", "", FALSE)]
  /\ \E readFails \in MayFail :
       LET c == load_peach_config(disk, readFails)
       IN  IF c.tag # "Ok" THEN Return(p, "PANIC")
           ELSE Return(p, IF d # c.config.dyn_domain THEN "true" ELSE "false")
  /\ UNCHANGED <<staleVars, storeVars, rtVars, regVars, updVars>>

\* the times at which the clock is looked at
TimePoints ==
  {0, 1, OnlineWindow - 1, OnlineWindow, OnlineWindow + 1, 2 * OnlineWindow}

\* time passes
Advance ==
  /\ \E t \in TimePoints : t > now /\ now' = t
  /\ UNCHANGED <<staleVars, storeVars, procVars, rtVars, regVars, logFile, nsupdate,
                 curlRuns, pubIp, updLoaded, logAtStart, retMsg>>

(***************************************************************************)
(* SpecStale: one caller records successes and asks, as time passes, how   *)
(* long ago the latest was, whether the updater is online and whether a    *)
(* domain is new, while system calls may fail.                             *)
(***************************************************************************)
StaleCaller == 1

InitStaleness ==
  /\ disk \in {AbsentFile} \cup {DocFile(Serialize(c)) : c \in UpdConfigs}
  /\ lockHolder = 0
  /\ faulty \in BOOLEAN
  /\ InitProcs
  /\ InitRt
  /\ InitReg
  /\ InitUpd
  /\ InitStale

NextStale ==
  \/ CallLog(StaleCaller)
  \/ LogSuccess(StaleCaller)
  \/ GetNumSeconds(StaleCaller)
  \/ IsOnline(StaleCaller)
  \/ \E d \in Domains : CheckIsNewDomain(StaleCaller, d)
  \/ Finish(StaleCaller)
  \/ Advance
  \/ Break
  \/ Repair

SpecStale == InitStaleness /\ [][NextStale]_vars

(***************************************************************************)
(* Setters called on any starting document.                                *)
(***************************************************************************)
\* the documents the setters can have written
StartConfigs ==
  {[external_domain |-> e, dyn_domain |-> d,
    dyn_dns_server_address |-> IF d = "" THEN "" ELSE PEACH_DYNDNS_URL,
    dyn_tsig_key_path |-> IF d = "" THEN "" ELSE TSIG_KEY_PATH,
    dyn_enabled |-> b, ssb_admin_ids |-> i] :
     e \in {"", DomainPool[1]}, d \in {""} \cup Domains, b \in BOOLEAN,
     i \in SeqsUpTo(Ids, MaxIds + 1)}

\* no file, a mapping without fields, a mapping with a mistyped field, or a
\* document the setters wrote
StartFiles ==
  {AbsentFile, DocFile(NoMap), DocFile([NoMap EXCEPT !.dyn_enabled = StrNode("yes")])}
  \cup {DocFile(Serialize(c)) : c \in StartConfigs}

AllSetterOps ==
  {SetExternalDomain(d) : d \in Domains}
  \cup {SetDynDnsEnabledValue(b) : b \in BOOLEAN}
  \cup {SetPeachDynDnsConfig(d, PEACH_DYNDNS_URL, TSIG_KEY_PATH, TRUE) : d \in Domains}
  \cup {AddSsbAdminId(i) : i \in Ids}
  \cup {DeleteSsbAdminId(i) : i \in Ids}

SsbOps == {AddSsbAdminId(i) : i \in Ids} \cup {DeleteSsbAdminId(i) : i \in Ids}

InitStart ==
  /\ disk \in StartFiles
  /\ lockHolder = 0
  /\ faulty = FALSE
  /\ InitProcs
  /\ rt_pc = "start"
  /\ rt_disk0 = disk
  /\ rt_first = Err("none")
  /\ rt_second = Err("none")
  /\ InitReg
  /\ InitUpd
  /\ InitStale

(***************************************************************************)
(* SpecSet: no system call fails; one setter is called on the starting     *)
(* document and, when it has returned, add_ssb_admin_id or                 *)
(* delete_ssb_admin_id is called.  The first call is made by process       *)
(* FirstCall and the second by process SecondCall.                         *)
(***************************************************************************)
FirstCall == 1
SecondCall == 2

NextSet ==
  \/ \E o \in AllSetterOps : Begin(FirstCall, o)
  \/ LockAndCreate(FirstCall)
  \/ WriteAndUnlock(FirstCall)
  \/ pc[FirstCall] = "done" /\ \E o \in SsbOps : Begin(SecondCall, o)
  \/ LockAndCreate(SecondCall)
  \/ WriteAndUnlock(SecondCall)

SpecSet == InitStart /\ [][NextSet]_vars

(***************************************************************************)
(* SpecRead: no system call fails; one process calls a setter while        *)
(* another calls load_peach_config, at any time.                           *)
(***************************************************************************)
NextRead ==
  \/ \E o \in AllSetterOps : Begin(FirstCall, o)
  \/ LockAndCreate(FirstCall)
  \/ WriteAndUnlock(FirstCall)
  \/ RtLoad

SpecRead == InitStart /\ [][NextRead]_vars

(***************************************************************************)
(* The document a reader finds on disk now.                                *)
(***************************************************************************)
OnDisk == load_peach_config(disk, FALSE)

\* the fields of the document an operation assigns
Written(o) ==
  CASE o.kind = "set_external_domain" -> {"external_domain"}
    [] o.kind = "set_dyndns_enabled_value" -> {"dyn_enabled"}
    [] o.kind \in {"set_peach_dyndns_config", "register_domain"} ->
         {"dyn_domain", "dyn_dns_server_address", "dyn_tsig_key_path", "dyn_enabled"}
    [] o.kind \in {"add_ssb_admin_id", "delete_ssb_admin_id"} -> {"ssb_admin_ids"}
    [] OTHER -> {}

\* document c shows the mutation of operation o
Reflected(o, c) ==
  CASE o.kind = "set_external_domain" -> c.external_domain = o.s
    [] o.kind = "set_dyndns_enabled_value" -> c.dyn_enabled = o.b
    [] o.kind = "set_peach_dyndns_config" ->
         /\ c.dyn_domain = o.s
         /\ c.dyn_dns_server_address = o.srv
         /\ c.dyn_tsig_key_path = o.key
         /\ c.dyn_enabled = o.b
    [] o.kind = "add_ssb_admin_id" -> o.s \in Range(c.ssb_admin_ids)
    [] OTHER -> TRUE

\* two mutations that do not undo one another: they assign different fields,
\* or they add different ids
Independent(o1, o2) ==
  \/ Written(o1) \cap Written(o2) = {}
  \/ o1.kind = "add_ssb_admin_id" /\ o2.kind = "add_ssb_admin_id" /\ o1.s # o2.s

AllReturnedOk == \A p \in Procs : pc[p] = "done" /\ ret[p] = "Ok"

(***************************************************************************)
(* C1: no lost updates.  When every process has performed one mutation     *)
(* through a setter, all have returned Ok and no two of them assign the    *)
(* same field (or they add distinct ids), the document on disk shows every *)
(* one of the mutations.                                                   *)
(***************************************************************************)
C1_NoLostUpdates ==
  (/\ AllReturnedOk
   /\ \A p, q \in Procs : p # q => Independent(op[p], op[q]))
  => /\ OnDisk.tag = "Ok"
     /\ \A p \in Procs : Reflected(op[p], OnDisk.config)

(***************************************************************************)
(* C2: the lock is released on every exit path.  A process that is not     *)
(* inside save_peach_config, because it has not entered it or because it   *)
(* has returned from it with Ok or with any error, does not hold the lock. *)
(***************************************************************************)
C2_LockReleasedOnReturn ==
  \A p \in Procs : pc[p] \in {"idle", "lock", "done"} => lockHolder # p

\* one save failed while writing and one while serializing, both after
\* taking the lock, and the lock is free
C2_Witness ==
  \E p, q \in Procs :
    /\ pc[p] = "done" /\ ret[p] = "WriteConfigError"
    /\ pc[q] = "done" /\ ret[q] = "YamlError"
    /\ lockHolder = 0

(***************************************************************************)
(* C3: a document holding any subset of the six fields, each with a value  *)
(* of its type, loads: the load succeeds, a field of the subset has the    *)
(* stored value (written back, it is the stored node) and every other      *)
(* field has its default.                                                  *)
(***************************************************************************)
Present(file) == {f \in Fields : file.map[f].t # "absent"}

WellTyped(file) ==
  /\ file.state = "doc"
  /\ \A f \in Present(file) : file.map[f].t = ExpectedType(f)

C3_PartialDocumentLoads ==
  (rt_pc # "start" /\ WellTyped(rt_disk0))
  => /\ rt_first.tag = "Ok"
     /\ \A f \in Present(rt_disk0) :
          Serialize(rt_first.config)[f] = rt_disk0.map[f]
     /\ \A f \in StringFields \ Present(rt_disk0) : rt_first.config[f] = ""
     /\ "dyn_enabled" \notin Present(rt_disk0) => rt_first.config.dyn_enabled = FALSE
     /\ "ssb_admin_ids" \notin Present(rt_disk0) => rt_first.config.ssb_admin_ids = <<>>

\* a document with some fields, strings, the flag and the list among them,
\* and without others has been loaded
C3_Witness ==
  /\ rt_pc = "loaded"
  /\ WellTyped(rt_disk0)
  /\ Present(rt_disk0) = {"dyn_domain", "dyn_enabled", "ssb_admin_ids"}
  /\ rt_disk0.map["dyn_enabled"] = BoolNode(TRUE)
  /\ Len(rt_disk0.map["ssb_admin_ids"].v) = 2
  /\ rt_first.tag = "Ok"
  /\ rt_first.config.dyn_enabled

(***************************************************************************)
(* C4: with no file on disk the load succeeds and returns the document of  *)
(* defaults.                                                               *)
(***************************************************************************)
C4_NoFileLoadsDefaults ==
  (rt_pc # "start" /\ rt_disk0.state = "absent")
  => /\ rt_first.tag = "Ok"
     /\ \A f \in StringFields : rt_first.config[f] = ""
     /\ rt_first.config.dyn_enabled = FALSE
     /\ rt_first.config.ssb_admin_ids = <<>>

C4_Witness == rt_pc = "loaded" /\ rt_disk0.state = "absent" /\ rt_first.tag = "Ok"

Registered(c, d) ==
  /\ c.dyn_domain = d
  /\ c.dyn_dns_server_address = PEACH_DYNDNS_URL
  /\ c.dyn_tsig_key_path = TSIG_KEY_PATH
  /\ c.dyn_enabled = TRUE

\* the errors set_peach_dyndns_config can return
PersistErrors == {"ReadConfigError", "YamlError", "StdIoError", "WriteConfigError"}

IsPrefix(s, t) == Len(s) <= Len(t) /\ SubSeq(t, 1, Len(s)) = s

RegistrationReturned(p, result) ==
  pc[p] = "done" /\ op[p].kind = "register_domain" /\ ret[p] = result

\* the part of C6 that is about the config document
RegisteredOnSuccess ==
  \A p \in Procs :
    RegistrationReturned(p, "Ok")
    => OnDisk.tag = "Ok" /\ Registered(OnDisk.config, op[p].s)

(***************************************************************************)
(* C6: when register_domain(candidate) returns success, the document on    *)
(* disk holds dyn_domain = candidate, the address of the registration      *)
(* service, the fixed key path and dyn_enabled = true, and the key file    *)
(* holds the key the remote service returned.                              *)
(***************************************************************************)
C6_SuccessMeansConsistent ==
  \A p \in Procs :
    RegistrationReturned(p, "Ok")
    => /\ OnDisk.tag = "Ok"
       /\ Registered(OnDisk.config, op[p].s)
       /\ keyFile.exists
       /\ keyFile.content = KeyLine(regKey)

(***************************************************************************)
(* C7: in register_domain the key is persisted before the config is        *)
(* touched.  The config file differs from what it was when the call began  *)
(* only once save_dyndns_key has returned Ok, with the key of this call at *)
(* the head of the key file; the steps of set_peach_dyndns_config are      *)
(* entered only then; and a call that ends with a remote error or a key    *)
(* error leaves the config file as it was.                                 *)
(***************************************************************************)
C7_KeyBeforeConfig ==
  \A p \in Procs :
    op[p].kind = "register_domain"
    => /\ disk # diskAtStart => keySaved
       /\ pc[p] \in {"persist", "lock", "write"} => keySaved
       /\ keySaved => keyFile.exists /\ IsPrefix(KeyLine(regKey), keyFile.content)
       /\ (pc[p] = "done" /\ ret[p] \in RemoteErrors \cup {"SaveTsigKeyError"})
            => disk = diskAtStart

\* a registration has written the config of a new domain, after its key
C7_Witness ==
  \E p \in Procs :
    /\ RegistrationReturned(p, "Ok")
    /\ disk # diskAtStart
    /\ keySaved
    /\ Registered(OnDisk.config, op[p].s)

(***************************************************************************)
(* C8: when the remote registration succeeded and the save of the config   *)
(* failed, register_domain returns an error of the persist step, which is  *)
(* none of the remote errors, the key file has been written with the       *)
(* returned key, and a retry of the persist step alone, made while no      *)
(* system call fails, returns Ok and leaves the registered config on disk. *)
(***************************************************************************)
PersistFailed(p) ==
  pc[p] = "done" /\ op[p].kind = "register_domain" /\ keySaved /\ ret[p] # "Ok"

\* the parts of C8 about the error and the key file
PersistErrorIsDistinct ==
  \A p \in Procs :
    PersistFailed(p)
    => /\ ret[p] \in PersistErrors \ RemoteErrors
       /\ keyFile.exists /\ IsPrefix(KeyLine(regKey), keyFile.content)

C8_PersistErrorAndRetry ==
  \A p \in Procs :
    /\ PersistFailed(p)
       => /\ ret[p] \in PersistErrors \ RemoteErrors
          /\ keyFile.exists /\ IsPrefix(KeyLine(regKey), keyFile.content)
    /\ (pc[p] = "done" /\ retrying /\ clean)
       => /\ ret[p] = "Ok"
          /\ OnDisk.tag = "Ok"
          /\ Registered(OnDisk.config, op[p].s)

(***************************************************************************)
(* The update engine.                                                      *)
(***************************************************************************)
UpdateReturned(p) == pc[p] = "done" /\ op[p].kind = "dyndns_update_ip"

(***************************************************************************)
(* C9: when the document dyndns_update_ip loaded has dyn_enabled = false,  *)
(* the call returns Ok(false), and it has run neither nsupdate nor curl    *)
(* and has left the log of the latest success as it was.                   *)
(***************************************************************************)
C9_DisabledMeansNoUpdate ==
  \A p \in Procs :
    (UpdateReturned(p) /\ updLoaded.tag = "Ok" /\ ~updLoaded.config.dyn_enabled)
    => /\ ret[p] = "OkFalse"
       /\ nsupdate.state = "none"
       /\ curlRuns = 0
       /\ logFile = logAtStart

\* a run with dyndns switched off, after a run that succeeded and logged
C9_Witness ==
  \E p \in Procs :
    /\ UpdateReturned(p)
    /\ updLoaded.tag = "Ok" /\ ~updLoaded.config.dyn_enabled
    /\ updLoaded.config.dyn_domain # ""
    /\ ret[p] = "OkFalse"
    /\ logFile.exists

(***************************************************************************)
(* C10: for an enabled document with dyn_domain = D and a discovered       *)
(* address X, the lines sent to nsupdate hold a line with `delete D A`,    *)
(* later a line with `add D 30 A X`, and as the last line, after both,     *)
(* `send`.                                                                 *)
(***************************************************************************)
Contains(line, words) ==
  \E i \in 1..(Len(line) - Len(words) + 1) :
    SubSeq(line, i, i + Len(words) - 1) = words

DeleteThenAddThenSend(lines, d, x) ==
  \E i, j \in 1..Len(lines) :
    /\ i < j /\ j < Len(lines)
    /\ Contains(lines[i], <<"delete", d, "A">>)
    /\ Contains(lines[j], <<"add", d, "30", "A", x>>)
    /\ lines[Len(lines)] = <<"send">>

C10_DeleteBeforeAdd ==
  nsupdate.stdin # <<>>
  => /\ updLoaded.tag = "Ok" /\ updLoaded.config.dyn_enabled
     /\ DeleteThenAddThenSend(nsupdate.stdin, updLoaded.config.dyn_domain, pubIp)

\* the commands for a domain and an address have been sent
C10_Witness ==
  /\ pc[UpdCaller] = "wait"
  /\ updLoaded.config.dyn_enabled
  /\ updLoaded.config.dyn_domain = DomainPool[1]
  /\ pubIp = IpPool[1]
  /\ Len(nsupdate.stdin) > 0

(***************************************************************************)
(* C11: when nsupdate exits with a status that is not success,             *)
(* dyndns_update_ip returns NsUpdateError with, as its msg, the text       *)
(* nsupdate wrote to its stdout, and the log of the latest success is as   *)
(* it was when the call began.                                             *)
(***************************************************************************)
C11_ErrorCarriesStdout ==
  \A p \in Procs :
    (UpdateReturned(p) /\ nsupdate.state = "failed")
    => /\ ret[p] = "NsUpdateError"
       /\ retMsg = nsupdate.out
       /\ logFile = logAtStart

\* the parts of C11 the code keeps: the error and the untouched log
NsUpdateErrorLogsNothing ==
  \A p \in Procs :
    (UpdateReturned(p) /\ nsupdate.state = "failed")
    => ret[p] = "NsUpdateError" /\ logFile = logAtStart

(***************************************************************************)
(* C12: dyndns_update_ip changes the log of the latest success if and only *)
(* if it returns Ok(true).  The step that returns Ok(true) leaves the      *)
(* current time, and nothing else, in the log; a step that returns any     *)
(* other result leaves the log as it was when the call began.              *)
(***************************************************************************)
UpdateReturns(p) ==
  pc[p] # "done" /\ pc'[p] = "done" /\ op'[p].kind = "dyndns_update_ip"

C12_TimestampIffSuccess ==
  [][\A p \in Procs :
       UpdateReturns(p)
       => IF ret'[p] = "OkTrue"
          THEN /\ logFile'.exists
               /\ \E groups \in 0..MaxFrac : logFile'.content = Rfc3339(now, groups)
          ELSE logFile' = logAtStart']_vars

(***************************************************************************)
(* C13: when the lookup of the public address fails in an enabled update   *)
(* (curl cannot be run, or it yields no address), the call ends with the   *)
(* error of the lookup, no commands have been sent to nsupdate, the log is *)
(* as it was, and curl has run once.                                       *)
(***************************************************************************)
LookupFailed(p) ==
  op[p].kind = "dyndns_update_ip" /\ curlRuns > 0 /\ pubIp = ""

C13_LookupFailureEndsAttempt ==
  \A p \in Procs :
    LookupFailed(p)
    => /\ pc[p] = "done"
       /\ ret[p] \in {"GetPublicIpError", "DecodePublicIpError"}
       /\ nsupdate.stdin = <<>>
       /\ logFile = logAtStart
       /\ curlRuns = 1

\* the part of C13 the code keeps: the lookup runs at most once in a call
LookupRunsOnce == curlRuns <= 1

(***************************************************************************)
(* C14: dyndns_update_ip only reads the config document.  From its call to *)
(* its return, whatever it returns, the config file is the file it was     *)
(* when the call began.                                                    *)
(***************************************************************************)
C14_UpdateLeavesConfig ==
  \A p \in Procs : op[p].kind = "dyndns_update_ip" => disk = diskAtStart

\* an update has succeeded and has written the log, and only the log
C14_Witness ==
  \E p \in Procs :
    /\ UpdateReturned(p)
    /\ ret[p] = "OkTrue"
    /\ logFile # logAtStart
    /\ disk = diskAtStart
    /\ disk.state = "doc"

(***************************************************************************)
(* The staleness monitor.                                                  *)
(***************************************************************************)
\* the step in which a call of the operation is made and returns
OnlineReturns(p) == pc[p] = "idle" /\ op'[p].kind = "is_dns_updater_online"

SecondsReturns(p) ==
  pc[p] = "idle" /\ op'[p].kind = "get_num_seconds_since_successful_dns_update"

\* a success has been recorded less than 360 seconds ago
RecentSuccess == lastSuccess.ever /\ now - lastSuccess.t < 360

(***************************************************************************)
(* C15: is_dns_updater_online, with the document loaded, returns true when *)
(* dyn_enabled is true and the latest recorded success is less than 360    *)
(* seconds old, and false otherwise: at 360 seconds, when no success has   *)
(* been recorded, and when dyn_enabled is false.                           *)
(***************************************************************************)
C15_OnlineIffEnabledAndRecent ==
  [][\A p \in Procs :
       (OnlineReturns(p) /\ updLoaded'.tag = "Ok")
       => ret'[p] = IF updLoaded'.config.dyn_enabled /\ RecentSuccess
                    THEN "OkTrue" ELSE "OkFalse"]_vars

\* what the code keeps of C15: when the lookup of the seconds returns None or
\* Some(d), the result is true exactly when dyn_enabled and d < 360
OnlineIffRanRecently ==
  [][\A p \in Procs :
       (OnlineReturns(p) /\ updLoaded'.tag = "Ok" /\ secs'.tag \in {"None", "Some"})
       => ret'[p] = IF /\ updLoaded'.config.dyn_enabled
                       /\ secs'.tag = "Some" /\ secs'.d < 360
                    THEN "OkTrue" ELSE "OkFalse"]_vars

(***************************************************************************)
(* C16: when the loaded document has dyn_enabled = false,                  *)
(* is_dns_updater_online returns false, and no error, whatever the log of  *)
(* the latest success holds.                                               *)
(***************************************************************************)
C16_DisabledIsOffline ==
  [][\A p \in Procs :
       (OnlineReturns(p) /\ updLoaded'.tag = "Ok" /\ ~updLoaded'.config.dyn_enabled)
       => ret'[p] = "OkFalse"]_vars

(***************************************************************************)
(* C17: get_num_seconds_since_successful_dns_update returns None as long   *)
(* as no success has been recorded, and Some(now - t) once a success has   *)
(* been recorded, t being the time of the latest.                          *)
(***************************************************************************)
C17_SecondsSinceSuccess ==
  [][\A p \in Procs :
       SecondsReturns(p)
       => secs' = IF lastSuccess.ever THEN SomeSecs(now - lastSuccess.t)
                  ELSE NoneSecs]_vars

(***************************************************************************)
(* C18: the lookup of the seconds never returns an error and never aborts, *)
(* and yields None when the log exists and does not hold a time;           *)
(* is_dns_updater_online, with the document loaded, then returns false.    *)
(***************************************************************************)
Malformed(file) == file.exists /\ ~WellFormed(file.content)

C18_MalformedRecordIsNone ==
  [][\A p \in Procs :
       /\ SecondsReturns(p)
          => /\ secs'.tag \in {"None", "Some"}
             /\ Malformed(logFile) => secs' = NoneSecs
       /\ (OnlineReturns(p) /\ updLoaded'.tag = "Ok" /\ Malformed(logFile))
          => ret'[p] = "OkFalse"]_vars

(***************************************************************************)
(* C19: no call of check_is_new_dyndns_domain, of                          *)
(* get_num_seconds_since_successful_dns_update or of dyndns_update_ip ends *)
(* in a panic: each returns a value or an error.                           *)
(***************************************************************************)
C19_NoPanic ==
  \A p \in Procs :
    op[p].kind \in {"check_is_new_dyndns_domain",
                    "get_num_seconds_since_successful_dns_update",
                    "dyndns_update_ip"}
    => ret[p] # "PANIC"

(***************************************************************************)
(* C20: a document in which a present field holds a value of another type  *)
(* than the field's (dyn_enabled a string, ssb_admin_ids a scalar) loads:  *)
(* the load succeeds, such a field has its default, and every present      *)
(* field of the right type has the stored value.                           *)
(***************************************************************************)
Mistyped(file) ==
  {f \in Present(file) : file.map[f].t # ExpectedType(f)}

C20_MistypedFieldDefaults ==
  (rt_pc # "start" /\ rt_disk0.state = "doc" /\ Mistyped(rt_disk0) # {})
  => /\ rt_first.tag = "Ok"
     /\ \A f \in Mistyped(rt_disk0) : rt_first.config[f] = DefaultConfig[f]
     /\ \A f \in Present(rt_disk0) \ Mistyped(rt_disk0) :
          Serialize(rt_first.config)[f] = rt_disk0.map[f]

\* what the code does with such a document
MistypedFieldFailsLoad ==
  (rt_pc # "start" /\ rt_disk0.state = "doc" /\ Mistyped(rt_disk0) # {})
  => rt_first.tag = "YamlError"

(***************************************************************************)
(* The lock.                                                               *)
(***************************************************************************)
\* process p is in the part of save_peach_config that writes the config file
InWrite(p) == pc[p] = "write"

(***************************************************************************)
(* C21: mutual exclusion of writers.  At most one process is in the part   *)
(* of save_peach_config that writes the config file, that process holds    *)
(* the lock, and every step that changes the config file is a step of a    *)
(* process in save_peach_config that holds the lock when it writes.        *)
(***************************************************************************)
C21_WritersExcludeOneAnother ==
  /\ [](\A p, q \in Procs :
          /\ (InWrite(p) /\ InWrite(q)) => p = q
          /\ InWrite(p) => lockHolder = p)
  /\ [][disk' # disk
        => \E p \in Procs :
             /\ pc[p] \in {"lock", "write"}
             /\ lockHolder = p \/ (lockHolder = 0 /\ lockHolder' = p)]_vars

\* one process writes, holding the lock, while another waits for the lock
C21_Witness ==
  \E p, q \in Procs :
    /\ p # q
    /\ InWrite(p) /\ lockHolder = p
    /\ pc[q] = "lock"
    /\ disk = EmptyFile

(***************************************************************************)
(* C22: in every setter the lock is taken before the document is loaded    *)
(* and is held until the changed document has been saved: a process that   *)
(* has loaded the document and has not yet returned holds the lock.        *)
(***************************************************************************)
C22_LockHeldFromLoadToSave ==
  \A p \in Procs : pc[p] \in {"lock", "write"} => lockHolder = p

(***************************************************************************)
(* C23: lock liveness.  Under fair scheduling every process that has       *)
(* entered a save returns; and once system calls no longer fail, every     *)
(* process that waits for the lock or holds it takes the lock, writes and  *)
(* returns Ok, also when saves of other processes have failed while they   *)
(* held the lock.                                                          *)
(***************************************************************************)
C23_LockLiveness ==
  \A p \in Procs :
    /\ (pc[p] \in {"lock", "write"}) ~> (pc[p] = "done")
    /\ (pc[p] \in {"lock", "write"} /\ ~faulty) ~> (pc[p] = "done" /\ ret[p] = "Ok")

\* a save has failed while it held the lock and, after system calls stopped
\* failing, another has returned Ok
C23_Witness ==
  \E p, q \in Procs :
    /\ pc[q] = "done" /\ ret[q] = "WriteConfigError"
    /\ pc[p] = "done" /\ ret[p] = "Ok"
    /\ ~faulty
    /\ lockHolder = 0

(***************************************************************************)
(* Calls on a starting document.                                           *)
(***************************************************************************)
\* what the starting document loads as, and what the first call makes of it
Before == load_peach_config(rt_disk0, FALSE)
After == Mutate(op[FirstCall], Before.config)

\* the first call has returned and the second has not been made
FirstReturned == pc[FirstCall] = "done" /\ pc[SecondCall] = "idle"

(***************************************************************************)
(* C24: a load_peach_config that runs while another process saves returns  *)
(* Ok, and returns either the whole document as it was before that save or *)
(* the whole document that save writes.                                    *)
(***************************************************************************)
C24_ConcurrentLoadIsComplete ==
  (rt_pc = "loaded" /\ Before.tag = "Ok")
  => /\ rt_first.tag = "Ok"
     /\ \/ rt_first.config = Before.config
        \/ /\ op[FirstCall] # NoOp
           /\ After.tag = "Ok"
           /\ rt_first.config = After.config

(***************************************************************************)
(* C25: frame of the setters.  A setter called on any starting document,   *)
(* with no other writer, that returns Ok leaves on disk a document in      *)
(* which every field it does not assign has the value it had on disk       *)
(* before the call; a setter that returns an error leaves the file as it   *)
(* was.                                                                    *)
(***************************************************************************)
C25_SetterFrame ==
  FirstReturned
  => IF ret[FirstCall] = "Ok"
     THEN /\ Before.tag = "Ok"
          /\ OnDisk.tag = "Ok"
          /\ Reflected(op[FirstCall], OnDisk.config)
          /\ \A f \in Fields \ Written(op[FirstCall]) :
               OnDisk.config[f] = Before.config[f]
     ELSE disk = rt_disk0

\* set_dyndns_enabled_value(false) has returned Ok on a document that held
\* a domain, the dyndns fields and ids
C25_Witness ==
  /\ FirstReturned
  /\ ret[FirstCall] = "Ok"
  /\ op[FirstCall] = SetDynDnsEnabledValue(FALSE)
  /\ Before.config.dyn_enabled
  /\ Before.config.external_domain # ""
  /\ Before.config.dyn_domain # ""
  /\ Len(Before.config.ssb_admin_ids) > 1
  /\ ~OnDisk.config.dyn_enabled

(***************************************************************************)
(* C30: delete_ssb_admin_id(id) on a list without id returns               *)
(* SsbAdminIdNotFound and leaves the file as it was; on a list with id it  *)
(* saves the list without the first id, the other ids in their order;      *)
(* add_ssb_admin_id(id) saves the list with id appended; and an add of an  *)
(* id that was not in the list, followed by a delete of it, leaves the     *)
(* list it started from.                                                   *)
(***************************************************************************)
\* the list s without its first x
WithoutFirst(s, x) ==
  LET i == CHOOSE i \in 1..Len(s) : s[i] = x /\ \A j \in 1..(i - 1) : s[j] # x
  IN  [k \in 1..(Len(s) - 1) |-> IF k < i THEN s[k] ELSE s[k + 1]]

StartIds == Before.config.ssb_admin_ids

C30_DeleteAndAddIds ==
  Before.tag = "Ok"
  => /\ (FirstReturned /\ op[FirstCall].kind = "delete_ssb_admin_id")
        => IF op[FirstCall].s \in Range(StartIds)
           THEN /\ ret[FirstCall] = "Ok"
                /\ OnDisk.tag = "Ok"
                /\ OnDisk.config.ssb_admin_ids = WithoutFirst(StartIds, op[FirstCall].s)
           ELSE /\ ret[FirstCall] = "SsbAdminIdNotFound"
                /\ disk = rt_disk0
     /\ (FirstReturned /\ op[FirstCall].kind = "add_ssb_admin_id")
        => /\ ret[FirstCall] = "Ok"
           /\ OnDisk.tag = "Ok"
           /\ OnDisk.config.ssb_admin_ids = Append(StartIds, op[FirstCall].s)
     /\ (/\ pc[SecondCall] = "done"
         /\ op[FirstCall].kind = "add_ssb_admin_id"
         /\ op[SecondCall] = DeleteSsbAdminId(op[FirstCall].s)
         /\ op[FirstCall].s \notin Range(StartIds))
        => /\ ret[SecondCall] = "Ok"
           /\ OnDisk.tag = "Ok"
           /\ OnDisk.config.ssb_admin_ids = StartIds

\* the first of two equal ids, with another id between them, has been deleted
C30_Witness ==
  /\ FirstReturned
  /\ op[FirstCall] = DeleteSsbAdminId(IdPool[1])
  /\ StartIds = <<IdPool[1], IdPool[2], IdPool[1]>>
  /\ ret[FirstCall] = "Ok"
  /\ OnDisk.config.ssb_admin_ids = <<IdPool[2], IdPool[1]>>

(***************************************************************************)
(* C26: the update is addressed from the loaded document.  The server line *)
(* sent to nsupdate names dyn_dns_server_address, the zone line and the    *)
(* record of the delete and add lines name dyn_domain, and nsupdate was    *)
(* started with dyn_tsig_key_path as its key.                              *)
(***************************************************************************)
C26_AddressedFromConfig ==
  nsupdate.stdin # <<>>
  => /\ updLoaded.tag = "Ok"
     /\ nsupdate.stdin[1] = <<"server", updLoaded.config.dyn_dns_server_address>>
     /\ nsupdate.stdin[2] = <<"zone", updLoaded.config.dyn_domain>>
     /\ nsupdate.stdin[3][3] = updLoaded.config.dyn_domain
     /\ nsupdate.stdin[4][3] = updLoaded.config.dyn_domain
     /\ nsupdate.key = updLoaded.config.dyn_tsig_key_path

\* what the code keeps of C26: the zone, the record and the key
ZoneAndKeyFromConfig ==
  nsupdate.stdin # <<>>
  => /\ updLoaded.tag = "Ok"
     /\ nsupdate.stdin[2] = <<"zone", updLoaded.config.dyn_domain>>
     /\ nsupdate.stdin[3][3] = updLoaded.config.dyn_domain
     /\ nsupdate.stdin[4][3] = updLoaded.config.dyn_domain
     /\ nsupdate.key = updLoaded.config.dyn_tsig_key_path

(***************************************************************************)
(* C27: in one update the public address is discovered before nsupdate is  *)
(* started: while a nsupdate child of the call exists, curl has run and    *)
(* has returned an address, and a call that ends with the error of the     *)
(* lookup has started no nsupdate.                                         *)
(***************************************************************************)
C27_LookupBeforeLaunch ==
  \A p \in Procs :
    op[p].kind = "dyndns_update_ip"
    => /\ nsupdate.state # "none" => (curlRuns > 0 /\ pubIp \in Ips)
       /\ (pc[p] = "done" /\ ret[p] \in {"GetPublicIpError", "DecodePublicIpError"})
          => nsupdate.state = "none"

(***************************************************************************)
(* C28: after any successful recordings of the time, the log holds the     *)
(* text of the latest time and nothing else, and the lookup of the seconds *)
(* reads it and returns Some(now - t), t being that time.                  *)
(***************************************************************************)
C28_LogHoldsLatestTime ==
  lastSuccess.ever
  => /\ logFile.exists
     /\ \E groups \in 0..MaxFrac : logFile.content = Rfc3339(lastSuccess.t, groups)
     /\ get_num_seconds_since_successful_dns_update(logFile, now, FALSE)
          = SomeSecs(now - lastSuccess.t)

\* what the code keeps of C28: the log begins with the text of the latest time
LogBeginsWithLatestTime ==
  lastSuccess.ever
  => /\ logFile.exists
     /\ \E groups \in 0..MaxFrac :
          IsPrefix(Rfc3339(lastSuccess.t, groups), logFile.content)

(***************************************************************************)
(* C29: after any successful registrations, the key file holds the key of  *)
(* the latest followed by a newline, and nothing of an earlier key.        *)
(***************************************************************************)
C29_KeyFileHoldsLatestKey ==
  keySaved => (keyFile.exists /\ keyFile.content = KeyLine(regKey))

====
